---- MODULE Spec2Model ----
(***************************************************************************)
(* URL shortener: the save handler (POST /url), the redirect handler       *)
(* (GET /{alias}), the postgres storage and the redis cache, as a state    *)
(* machine.  Requests run concurrently; a request's steps are its calls    *)
(* to the store and to the cache, which are the only state they share.     *)
(***************************************************************************)
EXTENDS Integers, Sequences, FiniteSets, Bags, TLC

\* ------------------------------------------------------------ bounds
\* Number of requests the server receives in a run.
MaxReq == 3

\* --------------------------------------------------- program constants
\* 5*time.Minute, in minutes.
TTL == 5
StatusOK == 200
StatusFound == 302
StatusBadRequest == 400
StatusNotFound == 404
StatusConflict == 409
StatusInternalServerError == 500

\* error values
Nil == "nil"
RedisNil == "redis: nil"
ErrURLExists == "url exists"
ErrURLNotFound == "url not found"
ErrOther == "unexpected error"

\* ------------------------------------------------------------- inputs
ValidURLs == {"https://example.com", "https://google.com"}
URLInputs == ValidURLs \cup {"", "not-a-url"}
\* what random.NewRandomString may return
GenAliases == {"abc", "xyz"}
SaveAliases == {"", "abc"}
\* "a.png" and "app.js" are paths with a static file extension
ResolveAliases == {"", "abc", "xyz", "a.png", "app.js"}
\* the keys the cache is asked for
Keys == (GenAliases \cup SaveAliases \cup ResolveAliases) \ {""}

VARIABLES
    table,     \* postgres: the rows of table url, records [alias, url]
    cache,     \* redis: key -> [val, ttl], the value and the expiration it was set with
    inflight,  \* the requests being handled: a bag of request records
    last,      \* the request answered by the last step (Idle when the step answered none)
    arrived,   \* number of requests received so far
    acked,     \* history: [alias, url] of every Save answered 200
    refused,   \* history: [alias, url, tried]: the mapping the store held when a Save
               \* of tried under the same alias was answered 409
    inserts,   \* history: alias -> number of SaveURL calls that returned no error
    gone,      \* history: the keys that have expired and were not set since
    reprimed,  \* history: the live keys a Resolve set after they had expired
    main       \* func main: where it is (pc) and the connections it holds

vars == <<table, cache, inflight, last, arrived, acked, refused, inserts, gone, reprimed, main>>
hist == <<acked, refused, inserts, gone, reprimed>>

\* ------------------------------------------------------------ storage

\* faulty schema: alias TEXT NOT NULL, without UNIQUE
NoUniqueConstraint(t, alias) == FALSE

\* alias TEXT NOT NULL UNIQUE
ViolatesUnique(t, alias) == \E r \in t : r.alias = alias

\* faulty SaveURL: INSERT ... ON CONFLICT (alias) DO UPDATE SET url = $1
SaveURLUpsert(t, urlToSave, alias, up) ==
    IF ~up THEN [err |-> ErrOther, table |-> t]
    ELSE [err |-> Nil,
          table |-> {r \in t : r.alias # alias} \cup {[alias |-> alias, url |-> urlToSave]}]

\* faulty SaveURL: a failure is reported after the row was inserted
SaveURLFailDirty(t, urlToSave, alias, up) ==
    IF ViolatesUnique(t, alias) THEN [err |-> ErrURLExists, table |-> t]
    ELSE [err |-> IF up THEN Nil ELSE ErrOther,
          table |-> t \cup {[alias |-> alias, url |-> urlToSave]}]

\* faulty SaveURL: the insert is answered without error and is never committed
SaveURLNoCommit(t, urlToSave, alias, up) ==
    IF ~up THEN [err |-> ErrOther, table |-> t]
    ELSE IF ViolatesUnique(t, alias) THEN [err |-> ErrURLExists, table |-> t]
    ELSE [err |-> Nil, table |-> t]

\* faulty SaveURL: the arguments bound to the columns in the wrong order
SaveURLSwapped(t, urlToSave, alias, up) ==
    IF ~up THEN [err |-> ErrOther, table |-> t]
    ELSE IF ViolatesUnique(t, urlToSave) THEN [err |-> ErrURLExists, table |-> t]
    ELSE [err |-> Nil, table |-> t \cup {[alias |-> urlToSave, url |-> alias]}]

\* Storage.SaveURL: INSERT INTO url(url, alias) VALUES($1, $2) RETURNING id.
\* up: the database answers (prepare and query fail for no other reason).  The id
\* the insert returns is only logged by the handler and is left out.
SaveURL(t, urlToSave, alias, up) ==
    IF ~up THEN [err |-> ErrOther, table |-> t]
    ELSE IF ViolatesUnique(t, alias) THEN [err |-> ErrURLExists, table |-> t]
    ELSE [err |-> Nil, table |-> t \cup {[alias |-> alias, url |-> urlToSave]}]

\* faulty GetURL: SELECT url FROM url, without the WHERE clause
GetURLAnyRow(t, alias, up) ==
    IF ~up THEN [url |-> "", err |-> ErrOther]
    ELSE IF t = {} THEN [url |-> "", err |-> ErrURLNotFound]
    ELSE [url |-> (CHOOSE r \in t : TRUE).url, err |-> Nil]

\* Storage.GetURL: SELECT url FROM url WHERE alias = $1.
GetURL(t, alias, up) ==
    IF ~up THEN [url |-> "", err |-> ErrOther]
    ELSE IF ~(\E r \in t : r.alias = alias) THEN [url |-> "", err |-> ErrURLNotFound]
    ELSE [url |-> (CHOOSE r \in t : r.alias = alias).url, err |-> Nil]

\* -------------------------------------------------------------- cache

\* faulty Set: the expiration is dropped, the key never expires
CacheSetNoExpiry(c, key, value, expiration, up) ==
    IF ~up THEN [err |-> ErrOther, cache |-> c]
    ELSE [err |-> Nil,
          cache |-> [k \in DOMAIN c \cup {key} |->
                        IF k = key THEN [val |-> value, ttl |-> 0] ELSE c[k]]]

\* Cache.Set: SET key value EX expiration.  up: redis answers.
CacheSet(c, key, value, expiration, up) ==
    IF ~up THEN [err |-> ErrOther, cache |-> c]
    ELSE [err |-> Nil,
          cache |-> [k \in DOMAIN c \cup {key} |->
                        IF k = key THEN [val |-> value, ttl |-> expiration] ELSE c[k]]]

\* faulty Get: the value of the reply is returned without its error
CacheGetVal(c, key, up) ==
    IF up /\ key \in DOMAIN c THEN [val |-> c[key].val, err |-> Nil]
    ELSE [val |-> "", err |-> Nil]

\* Cache.Get: GET key; redis.Nil when the key is absent (never set, or expired).
CacheGet(c, key, up) ==
    IF ~up THEN [val |-> "", err |-> ErrOther]
    ELSE IF key \in DOMAIN c THEN [val |-> c[key].val, err |-> Nil]
    ELSE [val |-> "", err |-> RedisNil]

\* A call made with context ctx is carried out only while ctx is live: the redis
\* client gives up a call whose context is done and returns its error.
Alive(ctx, up) == up /\ ctx = "live"

\* redis, once the expiration of key has run out: the key is gone
Expired(c, key) == [k \in DOMAIN c \ {key} |-> c[k]]

\* ---------------------------------------------------------- responses

NoResp == [status |-> 0, error |-> "", alias |-> "", location |-> ""]

\* render.JSON(w, r, resp.Error(msg)): no status is set on the request, so the
\* body goes out with the default status.
RenderJSONError(msg) == [status |-> StatusOK, error |-> msg, alias |-> "", location |-> ""]

\* http.NotFound(w, r)
HTTPNotFound ==
    [status |-> StatusNotFound, error |-> "404 page not found", alias |-> "", location |-> ""]

\* http.Redirect(w, r, url, http.StatusFound)
HTTPRedirect(url) == [status |-> StatusFound, error |-> "", alias |-> "", location |-> url]

\* save handler: an error response with its status code
SaveError(status, msg) == [status |-> status, error |-> msg, alias |-> "", location |-> ""]

\* save handler: responseOK(w, r, alias)
SaveOK(alias) == [status |-> StatusOK, error |-> "", alias |-> alias, location |-> ""]

\* ----------------------------------------------------------- requests

\* One call a handler made: op, its arguments, the error it returned and, for
\* the first call of a request, (had) the URLs the store held for the key when
\* the call was made.
Call(op, key, val, ttl, err, had) ==
    [op |-> op, key |-> key, val |-> val, ttl |-> ttl, err |-> err, had |-> had]

\* the URLs of the Saves of alias answered 200 so far
AckedURLs(alias) == {x.url : x \in {y \in acked : y.alias = alias}}

\* the URLs the store holds for alias
Rows(t, alias) == {x.url : x \in {y \in t : y.alias = alias}}

\* A request: its inputs, its position in the handler, the calls it made, its
\* response, and what was true of its alias when a Resolve asked the cache: the
\* URLs of the Saves answered 200 (after), whether the cache held the key (live),
\* whether the key had expired (expired) and whether a Resolve had put it back
\* since (reprimed).  ctx is r.Context(): "live", or "cancelled" once the client
\* has gone away or the request has timed out; errors are the messages the
\* redirect handler wrote with log.Error.
Idle == [kind |-> "", pc |-> "idle", url |-> "", aliasIn |-> "", alias |-> "",
         ctx |-> "live", resURL |-> "", log |-> <<>>, errors |-> <<>>, resp |-> NoResp,
         after |-> {}, live |-> FALSE, expired |-> FALSE, reprimed |-> FALSE]

One(r) == SetToBag({r})

\* the server accepts requests until srv.Shutdown closes its listeners
MayArrive == arrived < MaxReq /\ main.pc = "serving"

\* the process runs and its handlers go on: main has not returned
Running == main.pc \in {"serving", "shutdown"}

\* a request arrives and goes on as r2
Admit(r2) ==
    /\ inflight' = inflight (+) One(r2)
    /\ last' = Idle
    /\ arrived' = arrived + 1
    /\ main' = main

\* a request arrives and is answered at once, as r2
Reject(r2) ==
    /\ inflight' = inflight
    /\ last' = r2
    /\ arrived' = arrived + 1
    /\ main' = main

\* request r goes on as r2
Step(r, r2) ==
    /\ inflight' = (inflight (-) One(r)) (+) One(r2)
    /\ last' = Idle
    /\ arrived' = arrived
    /\ main' = main

\* request r is answered, as r2
Finish(r, r2) ==
    /\ inflight' = inflight (-) One(r)
    /\ last' = r2
    /\ arrived' = arrived
    /\ main' = main

Init ==
    /\ table = {}
    /\ cache = [k \in {} |-> [val |-> "", ttl |-> 0]]
    /\ inflight = EmptyBag
    /\ last = Idle
    /\ arrived = 0
    /\ acked = {}
    /\ refused = {}
    /\ inserts = [k \in Keys |-> 0]
    /\ gone = {}
    /\ reprimed = {}
    /\ main = [pc |-> "serving", storage |-> "open", cache |-> "open"]

\* ------------------------------------------------------- save handler

\* faulty validation: validate:"required" only
URLFieldErrorRequiredOnly(url) ==
    IF url = "" THEN "field URL is a required field" ELSE ""

\* validate:"required,url" on Request.URL
URLFieldError(url) ==
    IF url = "" THEN "field URL is a required field"
    ELSE IF url \notin ValidURLs THEN "field URL is not a valid URL"
    ELSE ""

\* faulty handler: a SaveURL error other than ErrURLExists is only logged
AfterSaveURLIgnore(err) ==
    IF err = ErrURLExists THEN SaveError(StatusConflict, "url already exists")
    ELSE NoResp

\* the answer to a SaveURL error (NoResp: none, the handler goes on)
AfterSaveURL(err) ==
    IF err = ErrURLExists THEN SaveError(StatusConflict, "url already exists")
    ELSE IF err # Nil THEN SaveError(StatusInternalServerError, "failed to add url")
    ELSE NoResp

\* the answer after the cache Set: its error is only logged
AfterPrime(err, alias) == SaveOK(alias)

\* faulty handler: the alias of the request is ignored, one is always generated
AliasForAlwaysRandom(a) == GenAliases

\* the alias of a Save: the one of the request, or when the request has none,
\* whatever random.NewRandomString returns
AliasFor(a) == IF a = "" THEN GenAliases ELSE {a}

\* POST /url: decode, validate, choose the alias, urlSaver.SaveURL(req.URL, alias)
\* and the answer to a failure, for a request whose context is ctx.  SaveURL
\* takes no context.
SaveStoreCtx(ctx) ==
    /\ MayArrive
    /\ \E url \in URLInputs, a \in SaveAliases :
         LET r0 == [Idle EXCEPT !.kind = "save", !.url = url, !.aliasIn = a, !.ctx = ctx]
         IN IF URLFieldError(url) # ""
            THEN /\ Reject([r0 EXCEPT !.pc = "done",
                                      !.resp = SaveError(StatusBadRequest, URLFieldError(url))])
                 /\ UNCHANGED <<table, inserts, refused>>
            ELSE \E alias \in AliasFor(a), up \in BOOLEAN :
                   LET res == SaveURL(table, url, alias, up)
                       had == Rows(table, alias)
                       r1 == [r0 EXCEPT !.alias = alias,
                                        !.log = <<Call("SaveURL", alias, url, 0, res.err, had)>>]
                   IN /\ table' = res.table
                      /\ inserts' = IF res.err = Nil THEN [inserts EXCEPT ![alias] = @ + 1]
                                    ELSE inserts
                      /\ refused' = IF res.err = ErrURLExists
                                    THEN refused \cup {[alias |-> alias, url |-> u, tried |-> url] : u \in had}
                                    ELSE refused
                      /\ IF AfterSaveURL(res.err) # NoResp
                         THEN Reject([r1 EXCEPT !.pc = "done", !.resp = AfterSaveURL(res.err)])
                         ELSE Admit([r1 EXCEPT !.pc = "cacheSet"])
    /\ UNCHANGED <<cache, acked, gone, reprimed>>

\* POST /url of a client that stays
SaveStore == SaveStoreCtx("live")

\* POST /url of a client that goes away while the handler runs
SaveStoreCancelled == SaveStoreCtx("cancelled")

\* urlCache.Set(ctx, alias, req.URL, 5*time.Minute), its error only logged, then
\* the response with the alias.
SavePrime ==
    \E r \in BagToSet(inflight), up \in BOOLEAN :
      /\ Running
      /\ r.kind = "save" /\ r.pc = "cacheSet"
      /\ LET res == CacheSet(cache, r.alias, r.url, TTL, Alive(r.ctx, up))
             r1 == [r EXCEPT !.log = Append(@, Call("cache.Set", r.alias, r.url, TTL, res.err, {}))]
         IN /\ cache' = res.cache
            /\ gone' = IF res.err = Nil THEN gone \ {r.alias} ELSE gone
            /\ acked' = acked \cup {[alias |-> r.alias, url |-> r.url]}
            /\ Finish(r, [r1 EXCEPT !.pc = "done", !.resp = AfterPrime(res.err, r.alias)])
      /\ UNCHANGED <<table, refused, inserts, reprimed>>

\* --------------------------------------------------- redirect handler

StaticExts == {".css", ".js", ".png", ".jpg", ".ico"}

\* the request path of route /{alias}
PathOf(alias) == "/" \o alias

\* len(path) > 4 and the last four bytes of the path are a static extension
IsStaticPath(path) ==
    /\ Len(path) > 4
    /\ SubSeq(path, Len(path) - 3, Len(path)) \in StaticExts

\* faulty handler: the test err != redis.Nil is missing, a miss is logged too
LogsEveryCacheGetError(err) == TRUE

\* whether the error of urlCache.Get is written with log.Error: not a miss
LogsCacheGetError(err) == err # RedisNil

\* faulty handler: the return after the redirect of a hit is missing
AfterCacheGetFallThrough(err) == "getURL"

\* faulty handler: after a failed Get the store is not read, the cache Set and
\* the redirect follow with the empty URL that Get returned
AfterCacheGetSkipStore(err) == IF err = Nil THEN "redirect" ELSE "cacheSet"

\* after urlCache.Get: no error redirects at once, any error goes on to the store
AfterCacheGet(err) == IF err = Nil THEN "redirect" ELSE "getURL"

\* faulty handler: the return after the not-found answer is missing
AfterGetURLNegativeCache(err) ==
    IF err = ErrURLNotFound THEN "cacheSet"
    ELSE IF err # Nil THEN "internal error"
    ELSE "cacheSet"

\* faulty handler: every GetURL error is answered as not found
AfterGetURLAllNotFound(err) == IF err # Nil THEN "not found" ELSE "cacheSet"

\* after urlGetter.GetURL: the error answered, or on to the cache Set
AfterGetURL(err) ==
    IF err = ErrURLNotFound THEN "not found"
    ELSE IF err # Nil THEN "internal error"
    ELSE "cacheSet"

\* faulty handler: a failed cache Set is answered with an error
AfterCacheSetFail(err, url) ==
    IF err # Nil THEN RenderJSONError("internal error") ELSE HTTPRedirect(url)

\* after urlCache.Set: its error is only logged, and the redirect follows
AfterCacheSet(err, url) == HTTPRedirect(url)

\* GET /{alias}: the alias and the static-file checks, then
\* urlCache.Get(r.Context(), alias), for a request whose context is ctx.
ResolveCacheGetCtx(ctx) ==
    /\ MayArrive
    /\ \E a \in ResolveAliases :
         LET r0 == [Idle EXCEPT !.kind = "resolve", !.aliasIn = a, !.alias = a, !.ctx = ctx]
         IN IF a = ""
            THEN Reject([r0 EXCEPT !.pc = "done", !.resp = RenderJSONError("invalid request")])
            ELSE IF IsStaticPath(PathOf(a))
            THEN Reject([r0 EXCEPT !.pc = "done", !.resp = HTTPNotFound])
            ELSE \E up \in BOOLEAN :
                   LET res == CacheGet(cache, a, Alive(ctx, up))
                       r1 == [r0 EXCEPT !.after = AckedURLs(a), !.live = (a \in DOMAIN cache),
                                        !.expired = (a \in gone),
                                        !.reprimed = (a \in reprimed),
                                        !.resURL = res.val,
                                        !.errors = IF res.err # Nil /\ LogsCacheGetError(res.err)
                                                   THEN <<"failed to get url from cache">>
                                                   ELSE <<>>,
                                        !.log = <<Call("cache.Get", a, res.val, 0, res.err, Rows(table, a))>>]
                   IN IF AfterCacheGet(res.err) = "redirect"
                      THEN Reject([r1 EXCEPT !.pc = "done", !.resp = HTTPRedirect(res.val)])
                      ELSE Admit([r1 EXCEPT !.pc = AfterCacheGet(res.err)])
    /\ UNCHANGED <<table, cache, hist>>

\* GET /{alias} of a client that stays
ResolveCacheGet == ResolveCacheGetCtx("live")

\* GET /{alias} of a client that goes away while the handler runs
ResolveCacheGetCancelled == ResolveCacheGetCtx("cancelled")

\* urlGetter.GetURL(alias) and the answer to a failure.  GetURL takes no context.
ResolveGetURL ==
    \E r \in BagToSet(inflight), up \in BOOLEAN :
      /\ Running
      /\ r.kind = "resolve" /\ r.pc = "getURL"
      /\ LET res == GetURL(table, r.alias, up)
             r1 == [r EXCEPT !.log = Append(@, Call("GetURL", r.alias, res.url, 0, res.err, {})),
                             !.errors = IF AfterGetURL(res.err) = "internal error"
                                        THEN Append(@, "failed to get url") ELSE @,
                             !.resURL = res.url]
         IN IF AfterGetURL(res.err) = "cacheSet"
            THEN Step(r, [r1 EXCEPT !.pc = "cacheSet"])
            ELSE Finish(r, [r1 EXCEPT !.pc = "done",
                                      !.resp = RenderJSONError(AfterGetURL(res.err))])
      /\ UNCHANGED <<table, cache, hist>>

\* urlCache.Set(r.Context(), alias, resURL, 5*time.Minute), then the redirect.
ResolveCacheSet ==
    \E r \in BagToSet(inflight), up \in BOOLEAN :
      /\ Running
      /\ r.kind = "resolve" /\ r.pc = "cacheSet"
      /\ LET res == CacheSet(cache, r.alias, r.resURL, TTL, Alive(r.ctx, up))
             r1 == [r EXCEPT !.log = Append(@, Call("cache.Set", r.alias, r.resURL, TTL, res.err, {})),
                             !.errors = IF res.err # Nil
                                        THEN Append(@, "failed to set url to cache") ELSE @]
         IN /\ cache' = res.cache
            /\ gone' = IF res.err = Nil THEN gone \ {r.alias} ELSE gone
            /\ reprimed' = IF res.err = Nil /\ r.alias \in gone
                            THEN reprimed \cup {r.alias} ELSE reprimed
            /\ Finish(r, [r1 EXCEPT !.pc = "done", !.resp = AfterCacheSet(res.err, r.resURL)])
      /\ UNCHANGED <<table, acked, refused, inserts>>

\* -------------------------------------------------------------- clock

\* Time passes until the expiration of a key runs out: redis drops the key.
ExpireKey ==
    \E k \in DOMAIN cache :
      /\ cache' = Expired(cache, k)
      /\ gone' = gone \cup {k}
      /\ reprimed' = reprimed \ {k}
      /\ last' = Idle
      /\ UNCHANGED <<table, inflight, arrived, acked, refused, inserts, main>>

Next ==
    \/ SaveStore
    \/ SavePrime
    \/ ResolveCacheGet
    \/ ResolveGetURL
    \/ ResolveCacheSet
    \/ ExpireKey

\* the server while it serves clients that stay until they are answered
Spec == Init /\ [][Next]_vars

\* ... and clients that go away: their requests run with a cancelled context
NextCancel ==
    \/ Next
    \/ SaveStoreCancelled
    \/ ResolveCacheGetCancelled

SpecCancel == Init /\ [][NextCancel]_vars

\* Each handler runs in a goroutine of its own and has no loop: while a request
\* is being handled, some handler goes on to its next call or to its response.
Fairness == WF_vars(SavePrime \/ ResolveGetURL \/ ResolveCacheSet)

\* the server while it serves, every handler going on until it has answered
SpecLive == Init /\ [][Next]_vars /\ Fairness

\* ------------------------------------------------------------ shutdown

\* <-done: the termination signal arrives and main calls srv.Shutdown(ctx) with
\* the 10 s timeout, which closes the listeners and waits for the requests.
Signal ==
    /\ main.pc = "serving"
    /\ main' = [main EXCEPT !.pc = "shutdown"]
    /\ last' = Idle
    /\ UNCHANGED <<table, cache, inflight, arrived, hist>>

\* srv.Shutdown returns nil: no request is in flight any more
ShutdownDrained ==
    /\ main.pc = "shutdown"
    /\ inflight = EmptyBag
    /\ main' = [main EXCEPT !.pc = "closeStorage"]
    /\ last' = Idle
    /\ UNCHANGED <<table, cache, inflight, arrived, hist>>

\* faulty main: the return after a failed srv.Shutdown is missing, main goes on
\* to close the connections
ShutdownTimeoutThenClose ==
    /\ main.pc = "shutdown"
    /\ inflight # EmptyBag
    /\ main' = [main EXCEPT !.pc = "closeStorage"]
    /\ last' = Idle
    /\ UNCHANGED <<table, cache, inflight, arrived, hist>>

\* the timeout of ctx runs out with requests in flight: srv.Shutdown returns the
\* error of ctx, main logs it and returns
ShutdownTimeout ==
    /\ main.pc = "shutdown"
    /\ inflight # EmptyBag
    /\ main' = [main EXCEPT !.pc = "returned"]
    /\ last' = Idle
    /\ UNCHANGED <<table, cache, inflight, arrived, hist>>

\* storage.Close(), its error only logged
CloseStorage ==
    /\ main.pc = "closeStorage"
    /\ main' = [main EXCEPT !.pc = "closeCache", !.storage = "closed"]
    /\ last' = Idle
    /\ UNCHANGED <<table, cache, inflight, arrived, hist>>

\* cache.Close(), its error only logged, and main returns
CloseCache ==
    /\ main.pc = "closeCache"
    /\ main' = [main EXCEPT !.pc = "stopped", !.cache = "closed"]
    /\ last' = Idle
    /\ UNCHANGED <<table, cache, inflight, arrived, hist>>

\* the server from its start to the return of main
NextShutdown ==
    \/ Next
    \/ Signal
    \/ ShutdownDrained
    \/ ShutdownTimeout
    \/ CloseStorage
    \/ CloseCache

SpecShutdown == Init /\ [][NextShutdown]_vars

\* --------------------------------------------------------- properties

\* last is a Save / a Resolve that has just been answered
SaveDone == last.kind = "save" /\ last.pc = "done"
ResolveDone == last.kind = "resolve" /\ last.pc = "done"

\* the i-th call of the request just answered
Made(i) == Len(last.log) >= i

\* every call the request made to the store was answered by the database
StoreAnswered == \A i \in 1..Len(last.log) :
                    last.log[i].op \in {"SaveURL", "GetURL"} => last.log[i].err # ErrOther

\* the request made a call op
Called(op) == \E i \in 1..Len(last.log) : last.log[i].op = op

C2_ConflictKeepsFirst ==
    /\ (SaveDone /\ Made(1) /\ last.log[1].err # ErrOther /\ last.log[1].had # {})
          => /\ last.resp = SaveError(StatusConflict, "url already exists")
             /\ Rows(table, last.alias) = last.log[1].had
    /\ \A x \in refused : Rows(table, x.alias) = {x.url}
    /\ (ResolveDone /\ Made(1) /\ StoreAnswered)
          => \A x \in refused : x.alias = last.alias => last.resp = HTTPRedirect(x.url)

\* C2 witness: a Resolve after a Save of another URL under the alias was refused
\* redirects to the first URL.
C2_Witness ==
    /\ ResolveDone
    /\ \E x \in refused : /\ x.alias = last.alias /\ x.tried # x.url
                          /\ last.resp = HTTPRedirect(x.url)

\* C3: however Saves of one alias interleave, at most one SaveURL of the alias
\* ever succeeds, the store never holds two rows with one alias, and a Save the
\* store answered is either the one that found the alias unused and succeeded or
\* is answered with the conflict.
C3_OneWinner ==
    /\ \A k \in DOMAIN inserts : inserts[k] <= 1
    /\ \A r1, r2 \in table : r1.alias = r2.alias => r1 = r2
    /\ (SaveDone /\ Made(1) /\ last.log[1].err # ErrOther)
          => /\ inserts[last.alias] = 1
             /\ IF last.log[1].had = {}
                THEN last.log[1].err = Nil /\ last.resp = SaveOK(last.alias)
                ELSE /\ last.log[1].err = ErrURLExists
                     /\ last.resp = SaveError(StatusConflict, "url already exists")

\* C3 witness: a Save is answered with the conflict while the Save that won
\* the alias is still being handled.
C3_Witness ==
    /\ SaveDone /\ last.resp.status = StatusConflict
    /\ \E r \in BagToSet(inflight) :
          r.kind = "save" /\ r.alias = last.alias /\ r.pc = "cacheSet"

\* C4 (as stated): a Resolve of an alias never saved and not in the cache, which
\* the store answers, ends with status 404 and error "not found" and does not
\* redirect.
C4_NotFoundIs404 ==
    (ResolveDone /\ Made(1) /\ StoreAnswered
       /\ inserts[last.alias] = 0 /\ ~last.live /\ last.alias \notin DOMAIN cache)
       => /\ last.resp.status = StatusNotFound
          /\ last.resp.error = "not found"
          /\ last.resp.location = ""

\* C5: a Resolve whose cache Get returns no error makes no other call, neither
\* GetURL nor a cache Set, and redirects to the value the cache returned.
C5_HitReturnsAtOnce ==
    (ResolveDone /\ Made(1) /\ last.log[1].err = Nil)
       => /\ Len(last.log) = 1
          /\ ~Called("GetURL") /\ ~Called("cache.Set")
          /\ last.resp = HTTPRedirect(last.log[1].val)

\* C5 witness: a hit on an entry written by a Save answered 200.
C5_Witness ==
    /\ ResolveDone /\ Made(1) /\ last.log[1].err = Nil
    /\ last.log[1].val \in last.after
    /\ last.resp.status = StatusFound

\* C6 (as stated): after a successful Save, a Resolve that finds the entry not
\* yet expired is answered from the cache with no store read.
C6_ServedFromCacheWithinTTL ==
    (ResolveDone /\ last.after # {} /\ last.live)
       => Len(last.log) = 1 /\ last.log[1].err = Nil

\* C6 (amended): a Save answered 200 whose cache Set succeeded leaves the entry
\* in the cache with the 5-minute expiration; a Resolve whose Get the cache
\* answers while the entry is live is served from the cache with no store read;
\* a Resolve that finds the entry gone reads the store, calls Set with the URL
\* read and the 5-minute expiration and, when that Set succeeds, leaves the
\* entry in the cache again; every entry carries the 5-minute expiration.
C6_CacheWindow ==
    /\ \A k \in DOMAIN cache : cache[k].ttl = TTL
    /\ (SaveDone /\ Made(2) /\ last.log[2].err = Nil)
          => /\ last.alias \in DOMAIN cache
             /\ cache[last.alias] = [val |-> last.url, ttl |-> TTL]
    /\ (ResolveDone /\ Made(1) /\ last.live /\ last.log[1].err # ErrOther)
          => /\ Len(last.log) = 1
             /\ last.log[1].err = Nil
             /\ last.resp = HTTPRedirect(last.log[1].val)
    /\ (ResolveDone /\ Made(1) /\ ~last.live)
          => /\ Made(2) /\ last.log[2].op = "GetURL"
             /\ last.log[2].err = Nil
                   => /\ Made(3)
                      /\ last.log[3].op = "cache.Set" /\ last.log[3].key = last.alias
                      /\ last.log[3].val = last.log[2].val /\ last.log[3].ttl = TTL
                      /\ last.log[3].err = Nil
                            => /\ last.alias \in DOMAIN cache
                               /\ cache[last.alias] = [val |-> last.log[2].val, ttl |-> TTL]

\* C6 witness: after a successful Save the entry expired, a Resolve read the
\* store and put it back, and the Resolve after that is served from the cache.
C6_Witness ==
    /\ ResolveDone /\ last.after # {} /\ last.live /\ last.reprimed
    /\ Len(last.log) = 1 /\ last.log[1].err = Nil
    /\ last.resp.status = StatusFound

\* C7: a Resolve whose cache Get returns a miss or a fault goes on to GetURL,
\* and its response is the one GetURL's answer dictates: the redirect to the URL
\* read, whether or not the cache Set that follows fails, the not-found error,
\* or the internal error.
C7_CacheNeverFailsResolve ==
    (ResolveDone /\ Made(1) /\ last.log[1].err # Nil)
       => /\ Made(2) /\ last.log[2].op = "GetURL" /\ last.log[2].key = last.alias
          /\ IF last.log[2].err = Nil
             THEN /\ last.resp = HTTPRedirect(last.log[2].val)
                  /\ last.log[2].val \in Rows(table, last.alias)
             ELSE IF last.log[2].err = ErrURLNotFound
             THEN /\ last.resp.error = "not found" /\ last.resp.location = ""
                  /\ Len(last.log) = 2
             ELSE /\ last.resp.error = "internal error" /\ last.resp.location = ""
                  /\ Len(last.log) = 2

\* C7 witness: the cache fails the Get and the Set of one Resolve, which still
\* redirects to the URL of the store.
C7_Witness ==
    /\ ResolveDone /\ Made(3)
    /\ last.log[1].err = ErrOther /\ last.log[3].err = ErrOther
    /\ last.resp = HTTPRedirect(last.log[2].val)
    /\ last.resp.location \in ValidURLs

\* a Save request whose URL is missing or is not a valid URL
InvalidSave(r) == r.kind = "save" /\ r.pc = "done" /\ (r.url = "" \/ r.url \notin ValidURLs)

\* C8: a Save whose URL is missing or not a valid URL is answered 400 with the
\* message of the failed rule and makes no call, and the step that handles it
\* leaves the store and the cache as they were.
C8_InvalidURLNoSideEffects ==
    /\ [](InvalidSave(last)
            => /\ last.resp.status = StatusBadRequest
               /\ last.resp.error = (IF last.url = "" THEN "field URL is a required field"
                                     ELSE "field URL is not a valid URL")
               /\ last.resp.alias = ""
               /\ last.log = <<>>)
    /\ [][InvalidSave(last') => table' = table /\ cache' = cache]_vars

\* C8 witness: a malformed URL is refused while the store and the cache hold a
\* mapping.
C8_Witness ==
    /\ InvalidSave(last) /\ last.url = "not-a-url"
    /\ last.resp.status = StatusBadRequest
    /\ table # {} /\ DOMAIN cache # {}

\* C9: a Save whose SaveURL returns an error made that one call and no other,
\* under the alias it chose, is answered 409 "url already exists" for
\* ErrURLExists and 500 "failed to add url" for any other error, and never
\* calls the cache.
C9_StoreFailure ==
    (SaveDone /\ Made(1) /\ last.log[1].err # Nil)
       => /\ Len(last.log) = 1
          /\ last.log[1].op = "SaveURL" /\ last.log[1].key = last.alias
          /\ last.log[1].val = last.url
          /\ ~Called("cache.Set")
          /\ last.resp = (IF last.log[1].err = ErrURLExists
                          THEN SaveError(StatusConflict, "url already exists")
                          ELSE SaveError(StatusInternalServerError, "failed to add url"))

\* C9 witness: the database fails a Save of a generated alias, answered 500.
C9_Witness ==
    /\ SaveDone /\ Made(1) /\ last.log[1].err = ErrOther
    /\ last.aliasIn = "" /\ last.alias \in GenAliases
    /\ last.resp.status = StatusInternalServerError

\* C10: a Save whose SaveURL succeeded calls the cache Set once, with its alias,
\* its URL and the 5-minute expiration, and whether or not that Set fails it is
\* answered 200 with the alias and the store returns its URL for the alias.
C10_BestEffortPrime ==
    (SaveDone /\ Made(1) /\ last.log[1].err = Nil)
       => /\ Len(last.log) = 2
          /\ last.log[2].op = "cache.Set" /\ last.log[2].key = last.alias
          /\ last.log[2].val = last.url /\ last.log[2].ttl = TTL
          /\ last.resp = SaveOK(last.alias)
          /\ last.resp.status = StatusOK
          /\ GetURL(table, last.alias, TRUE) = [url |-> last.url, err |-> Nil]

\* C10 witness: the cache Set of a Save fails and the Save is answered 200.
C10_Witness ==
    /\ SaveDone /\ Made(2) /\ last.log[1].err = Nil /\ last.log[2].err = ErrOther
    /\ last.resp = SaveOK(last.alias)
    /\ last.alias \notin DOMAIN cache

EndsIn(path, ext) ==
    /\ Len(path) >= Len(ext)
    /\ SubSeq(path, Len(path) - Len(ext) + 1, Len(path)) = ext

\* C12 (as stated): a GET whose path ends in .css, .js, .png, .jpg or .ico is
\* answered not-found and makes no call to the cache or to the store.
C12_StaticPathsNotFound ==
    (ResolveDone /\ \E ext \in StaticExts : EndsIn(PathOf(last.aliasIn), ext))
       => /\ last.resp.status = StatusNotFound
          /\ last.log = <<>>

\* C13 (as stated): every call of a request whose context is cancelled is
\* aborted, that is returns an error without having been answered by the store
\* or the cache, and a cancelled Save leaves the store holding for its alias
\* what it held before.
C13_CancelledCallsAborted ==
    (last.pc = "done" /\ last.ctx = "cancelled")
       => /\ \A i \in 1..Len(last.log) : last.log[i].err = ErrOther
          /\ (last.kind = "save" /\ Made(1))
                => Rows(table, last.alias) = last.log[1].had

\* main has returned
Exited == main.pc \in {"stopped", "returned"}

\* C14 (as stated): in every shutdown the store and the cache connections are
\* closed only after srv.Shutdown has returned, and they are closed when main
\* returns, also when the grace period ran out with requests in flight.
C14_DrainThenClose ==
    /\ (main.storage = "closed" \/ main.cache = "closed")
          => main.pc \in {"closeCache", "stopped"}
    /\ Exited => main.storage = "closed" /\ main.cache = "closed"

\* C15: a Resolve whose GetURL returns an error other than ErrURLNotFound is
\* answered with the error "internal error", not with a redirect and not with
\* "not found", and makes no cache Set.
C15_StoreErrorIsInternal ==
    (ResolveDone /\ Made(2) /\ last.log[2].op = "GetURL"
       /\ last.log[2].err \notin {Nil, ErrURLNotFound})
       => /\ last.resp.error = "internal error"
          /\ last.resp.status # StatusFound /\ last.resp.location = ""
          /\ last.resp.status # StatusNotFound
          /\ Len(last.log) = 2 /\ ~Called("cache.Set")

\* C15 witness: the database fails the lookup of an alias the store maps and
\* the cache has lost.
C15_Witness ==
    /\ ResolveDone /\ Made(2) /\ last.log[2].err = ErrOther
    /\ Rows(table, last.alias) # {} /\ last.expired
    /\ last.resp.error = "internal error"
    /\ last.alias \notin DOMAIN cache

\* the request wrote msg with log.Error
Logged(msg) == \E i \in 1..Len(last.errors) : last.errors[i] = msg

\* C16 (as stated): a Resolve whose cache Get returns an error that is not a
\* miss does not go on to read the store.
C16_OnlyMissFallsThrough ==
    (ResolveDone /\ Made(1) /\ last.log[1].err \notin {Nil, RedisNil})
       => ~Called("GetURL")

\* C16 (amended): a Resolve whose cache Get returns an error, a miss or any
\* other, goes on to GetURL of its alias; the two differ only in that an error
\* that is not a miss is written to the error log and a miss is not.
C16_FaultLoggedThenFallsThrough ==
    (ResolveDone /\ Made(1) /\ last.log[1].err # Nil)
       => /\ Made(2) /\ last.log[2].op = "GetURL" /\ last.log[2].key = last.alias
          /\ Logged("failed to get url from cache") <=> last.log[1].err # RedisNil

\* C16 witness: the cache fails the Get of an entry it holds, the error is
\* logged and the Resolve is answered from the store.
C16_Witness ==
    /\ ResolveDone /\ Made(2) /\ last.live
    /\ last.log[1].err = ErrOther /\ Logged("failed to get url from cache")
    /\ last.log[2].op = "GetURL" /\ last.log[2].err = Nil
    /\ last.resp = HTTPRedirect(last.log[2].val)

\* the positions of the cache Sets among the calls of the request
SetCalls == {i \in 1..Len(last.log) : last.log[i].op = "cache.Set"}

\* C17: a Resolve calls the cache Set if and only if its cache Get returned an
\* error and its GetURL returned none; it then calls it once, as its third and
\* last call, with its alias, the URL GetURL returned and the 5-minute
\* expiration, and redirects to that URL with 302; a Resolve whose GetURL
\* returned ErrURLNotFound makes no Set and leaves no entry for the alias.
C17_CacheWriteIffStoreHit ==
    ResolveDone
       => /\ Called("cache.Set")
                <=> (Made(2) /\ last.log[1].err # Nil /\ last.log[2].err = Nil)
          /\ Cardinality(SetCalls) <= 1
          /\ Called("cache.Set")
                => /\ SetCalls = {3} /\ Len(last.log) = 3
                   /\ last.log[3].key = last.alias
                   /\ last.log[3].val = last.log[2].val
                   /\ last.log[3].ttl = TTL
                   /\ last.resp = HTTPRedirect(last.log[2].val)
                   /\ last.resp.status = StatusFound
          /\ (Made(2) /\ last.log[2].err = ErrURLNotFound)
                => /\ ~Called("cache.Set")
                   /\ last.alias \notin DOMAIN cache

\* C17 witness: a Resolve misses an alias the cache never held, reads the store
\* and writes the entry.
C17_Witness ==
    /\ ResolveDone /\ Made(3) /\ ~last.expired
    /\ last.log[1].err = RedisNil /\ last.log[2].err = Nil /\ last.log[3].err = Nil
    /\ last.alias \in DOMAIN cache
    /\ cache[last.alias] = [val |-> last.log[2].val, ttl |-> TTL]
    /\ last.resp.status = StatusFound

\* C18: in every reachable state, whatever the interleaving of the Saves and
\* the Resolves, each entry of the cache is a mapping of the store: for a key
\* the cache holds, the store holds exactly the URL that is the cached value.
C18_CacheAgreesWithStore ==
    \A k \in DOMAIN cache : Rows(table, k) = {cache[k].val}

\* C18 witness: a Resolve that raced a Save has put the new mapping into the
\* cache while the Save has not yet made its own cache Set.
C18_Witness ==
    \E r \in BagToSet(inflight) :
       /\ r.kind = "save" /\ r.pc = "cacheSet"
       /\ r.alias \in DOMAIN cache /\ cache[r.alias].val = r.url

\* C19: no step removes or changes a mapping: every row of the store is a row
\* of the store after the step and stays the only row of its alias; the store
\* changes only by the one row that an arriving Save inserts, and the step of a
\* Save whose SaveURL returned an error, the conflict or any other, and every
\* step of a Resolve leave the store as it was.
C19_WriteOnce ==
    [][ /\ table \subseteq table'
        /\ \A r \in table : Rows(table', r.alias) = {r.url}
        /\ table' # table
              => /\ Cardinality(table' \ table) = 1
                 /\ arrived' = arrived + 1
                 /\ \E r \in BagToSet(inflight') :
                       /\ r.kind = "save" /\ r.log[1].err = Nil
                       /\ table' \ table = {[alias |-> r.alias, url |-> r.url]}
        /\ (last'.kind = "save" /\ last'.log # <<>> /\ last'.log[1].err # Nil)
              => table' = table
        /\ last'.kind = "resolve" => table' = table
      ]_vars

\* C19 witness: after a Save that succeeded and one that was refused, the
\* database fails a third Save of the alias and the store still holds the
\* first mapping.
C19_Witness ==
    /\ SaveDone /\ Made(1) /\ last.log[1].err = ErrOther
    /\ last.log[1].had # {} /\ Rows(table, last.alias) = last.log[1].had
    /\ \E x \in refused : x.alias = last.alias /\ Rows(table, x.alias) = {x.url}

\* C20: a Resolve that begins when the store already holds a row for its alias,
\* whether or not the Save that inserted it has made its cache Set and whether
\* or not that Set failed, is never answered not-found, and redirects to the
\* URL of the row whenever the store answers its lookup.
C20_CommittedInsertResolves ==
    (ResolveDone /\ Made(1) /\ last.log[1].had # {})
       => /\ last.resp.error # "not found"
          /\ last.resp.status # StatusNotFound
          /\ StoreAnswered => \A u \in last.log[1].had : last.resp = HTTPRedirect(u)

\* C20 witness: a Resolve races a Save that has inserted its row and has not
\* yet made its cache Set: it misses the cache and redirects from the store.
C20_Witness ==
    /\ ResolveDone /\ Made(2) /\ last.after = {}
    /\ last.log[1].err = RedisNil /\ last.log[1].had # {}
    /\ last.resp = HTTPRedirect(last.log[2].val)
    /\ \E r \in BagToSet(inflight) :
          r.kind = "save" /\ r.pc = "cacheSet" /\ r.alias = last.alias /\ r.url = last.log[2].val

\* the calls a Resolve makes, in the order of the handler
ResolveOrder == <<"cache.Get", "GetURL", "cache.Set">>

\* the calls r has made are the first calls of ResolveOrder, each made once
InOrder(r) ==
    /\ Len(r.log) <= Len(ResolveOrder)
    /\ \A i \in 1..Len(r.log) : r.log[i].op = ResolveOrder[i]

\* the Resolves being handled
ResolvesInFlight == {r \in BagToSet(inflight) : r.kind = "resolve"}

\* the responses of the redirect handler
IsResolveResponse(resp) ==
    \/ resp.status = StatusFound
    \/ resp = HTTPNotFound
    \/ resp.error \in {"not found", "internal error", "invalid request"}

\* C21: every Resolve is answered: while it is handled it has written no
\* response, it is answered in the step that ends it, with a redirect, a
\* not-found, an internal error or an invalid request, and at every moment the
\* Resolves in flight are all answered in the end; the calls of a Resolve, answered or in
\* flight, are cache Get, then GetURL, then cache Set, each at most once and
\* none before the one it follows.
C21_OneResponseCallsInOrder ==
    /\ [](\A r \in ResolvesInFlight :
            /\ r.resp = NoResp /\ InOrder(r)
            /\ Len(r.log) = (IF r.pc = "getURL" THEN 1 ELSE 2))
    /\ [](ResolveDone
            => /\ last.resp # NoResp /\ IsResolveResponse(last.resp)
               /\ InOrder(last))
    /\ []<>(ResolvesInFlight = {})

\* C21 witness: a Resolve has made its three calls in order and is answered
\* with the redirect while another Resolve waits for the store.
C21_Witness ==
    /\ ResolveDone /\ Len(last.log) = 3 /\ InOrder(last)
    /\ last.resp.status = StatusFound
    /\ \E r \in ResolvesInFlight : r.pc = "getURL" /\ Len(r.log) = 1

\* main is past srv.Shutdown, which returned no error
PastShutdown == main.pc \in {"closeStorage", "closeCache", "stopped"}

\* C22: while a request is being handled both connections are open and main has
\* not gone past srv.Shutdown; a connection is closed only by a step of main that
\* is past srv.Shutdown, which main passes only when srv.Shutdown returns with
\* no request in flight; and when srv.Shutdown fails, the grace period having
\* run out, main returns with both connections open and closes none afterwards.
C22_NoCloseWhileInFlight ==
    /\ [](inflight # EmptyBag
            => /\ main.storage = "open" /\ main.cache = "open"
               /\ ~PastShutdown)
    /\ [](main.pc = "returned" => main.storage = "open" /\ main.cache = "open")
    /\ [][ /\ (main'.storage # main.storage \/ main'.cache # main.cache)
                 => PastShutdown /\ inflight = EmptyBag
           /\ (PastShutdown' /\ ~PastShutdown)
                 => main.pc = "shutdown" /\ inflight = EmptyBag
           /\ main.pc = "returned" => main' = main
           /\ (main.pc = "shutdown" /\ inflight # EmptyBag /\ main'.pc # "shutdown")
                 => main'.pc = "returned" /\ main'.storage = "open" /\ main'.cache = "open"
       ]_vars

\* C22 witness: the server has answered its requests, srv.Shutdown has returned
\* and main has closed the store and then the cache.
C22_Witness ==
    /\ main.pc = "stopped" /\ main.storage = "closed" /\ main.cache = "closed"
    /\ inflight = EmptyBag /\ arrived > 0
    /\ acked # {} /\ DOMAIN cache # {}

====
